---- MODULE Spec2Model ----
(***************************************************************************)
(* pyudpbd: a UDPBD block device server.  The model follows               *)
(* pyudpbd/proto.py (wire codec), pyudpbd/blkdev.py (block devices),      *)
(* pyudpbd/server.py (BlockDeviceServer) and server.py (main).            *)
(*                                                                         *)
(* Fixed-size frame prefixes are sequences of concrete bytes (0..255).     *)
(* Bulk data (device contents, RDMA data) is a sequence of runs            *)
(* [src, off, len]: len bytes taken from byte off of source src, where     *)
(* source 0 is the initial device content and source k > 0 is the data of  *)
(* the k-th received datagram.  Runs are kept merged, so two byte strings  *)
(* are equal exactly when their run lists are equal.                       *)
(***************************************************************************)
EXTENDS Integers, Sequences, FiniteSets, TLC

\* ------------------------------------------------------------- bounds
\* work the serve loop does in one run: one unit per datagram received, plus
\* one per 256 sectors a READ asks for
MaxWork == 3
\* sector count of the large READ (more than 255 RDMA packets)
BigRead == 718
\* modelled prefix, in bytes, of a file-backed device of 2^32 sectors
DevWindow == 1073741824
\* largest block_count, cmdid and cmdpkt handed to the codec
MaxBlockCount == 511
MaxCmdid == 7
MaxCmdpkt == 255
\* largest sector count handed to the block-shift selector
MaxSectors == 4096
\* largest block size handed to BlockType.create
MaxBlockSize == 1024

\* ------------------------------------------------------ program constants
RDMA_MAX_PAYLOAD == 1466
DEFAULT_BLOCK_DEVICE_SIZE == 16 * 1024 * 1024
UDPBD_CMD_INFO == 0
UDPBD_CMD_INFO_REPLY == 1
UDPBD_CMD_READ == 2
UDPBD_CMD_READ_RDMA == 3
UDPBD_CMD_WRITE == 4
UDPBD_CMD_WRITE_RDMA == 5
UDPBD_CMD_WRITE_DONE == 6

Min(a, b) == IF a < b THEN a ELSE b
Max(a, b) == IF a > b THEN a ELSE b
Pow2(n) == 2 ^ n

\* ------------------------------------------------------------ byte strings
Run(src, off, len) == [src |-> src, off |-> off, len |-> len]

\* len bytes of a fresh source
Fresh(src, len) == IF len > 0 THEN <<Run(src, 0, len)>> ELSE <<>>

RECURSIVE BLen(_)
BLen(b) == IF b = <<>> THEN 0 ELSE Head(b).len + BLen(Tail(b))

\* a + b
BCat(a, b) ==
    IF a = <<>> THEN b
    ELSE IF b = <<>> THEN a
    ELSE LET x == a[Len(a)]
             y == b[1]
         IN  IF x.src = y.src /\ x.off + x.len = y.off
             THEN SubSeq(a, 1, Len(a) - 1)
                    \o <<Run(x.src, x.off, x.len + y.len)>> \o Tail(b)
             ELSE a \o b

\* b[:n]
RECURSIVE BTake(_, _)
BTake(b, n) ==
    IF n <= 0 \/ b = <<>> THEN <<>>
    ELSE IF Head(b).len <= n
         THEN <<Head(b)>> \o BTake(Tail(b), n - Head(b).len)
         ELSE <<Run(Head(b).src, Head(b).off, n)>>

\* b[n:]
RECURSIVE BDrop(_, _)
BDrop(b, n) ==
    IF n <= 0 \/ b = <<>> THEN b
    ELSE IF Head(b).len <= n
         THEN BDrop(Tail(b), n - Head(b).len)
         ELSE <<Run(Head(b).src, Head(b).off + n, Head(b).len - n)>> \o Tail(b)

\* b[i:j] of a Python bytes object, 0 <= i
Slice(b, i, j) == BTake(BDrop(b, i), j - i)

\* the bytearray after b[i:j] = p, 0 <= i <= j
Splice(b, i, j, p) == BCat(BCat(BTake(b, i), p), BDrop(b, j))

RECURSIVE BCatAll(_)
BCatAll(s) == IF s = <<>> THEN <<>> ELSE BCat(Head(s), BCatAll(Tail(s)))

\* --------------------------------------------------------- struct helpers
\* struct.pack('<H', v), 0 <= v < 2^16
PackU16(v) == <<v % 256, v \div 256>>

\* struct.unpack('<H', <<b0, b1>>)
UnpackU16(b, at) == b[at] + 256 * b[at + 1]

\* a 32-bit-or-wider number as two limbs, value hi * 2^16 + lo
Wide(hi, lo) == [hi |-> hi, lo |-> lo]
ToWide(v) == Wide(v \div 65536, v % 65536)

\* struct.pack('<I', v) raises struct.error unless 0 <= v < 2^32
FitsU32(w) == w.hi >= 0 /\ w.hi < 65536 /\ w.lo >= 0
PackU32(w) == PackU16(w.lo) \o PackU16(w.hi)
UnpackU32(b, at) == Wide(UnpackU16(b, at + 2), UnpackU16(b, at))
\* the value of a 32-bit field known to be below 2^31
Narrow(w) == w.hi * 65536 + w.lo

\* ------------------------------------------------------------- wire codec
\* A datagram is [addr, head, tail]: head is the sequence of leading bytes
\* that the codec interprets, tail the data bytes that follow them.
Datagram(addr, head, tail) == [addr |-> addr, head |-> head, tail |-> tail]
BufLen(buf) == Len(buf.head) + BLen(buf.tail)

\* Header.pack
Header_pack_3_5(cmd, cmdid, cmdpkt) ==
    PackU16((cmd % 8) + ((cmdid % 32) * 8) + ((cmdpkt % 256) * 256))
Header_pack(cmd, cmdid, cmdpkt) ==
    PackU16((cmd % 32) + ((cmdid % 8) * 32) + ((cmdpkt % 256) * 256))

\* Header.unpack(buf[:2]); err names the exception raised, "" when none
Header_unpack(head) ==
    IF Len(head) < 2
    THEN [err |-> "struct.error", cmd |-> 0, cmdid |-> 0, cmdpkt |-> 0]
    ELSE LET v == UnpackU16(head, 1)
             cmd == v % 32
         IN  IF cmd > UDPBD_CMD_WRITE_DONE
             THEN [err |-> "ValueError", cmd |-> cmd, cmdid |-> 0, cmdpkt |-> 0]
             ELSE [err |-> "", cmd |-> cmd, cmdid |-> (v % 256) \div 32,
                   cmdpkt |-> v \div 256]

\* InfoRequest.pack
InfoRequest_pack(cmdid, cmdpkt) == Header_pack(UDPBD_CMD_INFO, cmdid, cmdpkt)

\* InfoReply.pack: "" or the exception raised, and the bytes
InfoReply_pack(hdr, sector_size, sector_count) ==
    IF FitsU32(ToWide(sector_size)) /\ FitsU32(sector_count)
    THEN [err |-> "", bytes |-> hdr \o PackU32(ToWide(sector_size))
                                     \o PackU32(sector_count)]
    ELSE [err |-> "struct.error", bytes |-> <<>>]

\* RWRequest.pack
RWRequest_pack(cmd, cmdid, cmdpkt, sector_nr, sector_count) ==
    Header_pack(cmd, cmdid, cmdpkt) \o PackU32(ToWide(sector_nr))
        \o PackU16(sector_count)

\* RWRequest.unpack
RWRequest_unpack(head) ==
    IF Len(head) < 8
    THEN [err |-> "struct.error", sector_nr |-> 0, sector_count |-> 0]
    ELSE [err |-> "", sector_nr |-> Narrow(UnpackU32(head, 3)),
          sector_count |-> UnpackU16(head, 7)]

\* WriteReply.pack
WriteReply_pack(hdr, result) == hdr \o PackU32(ToWide(result))

\* BlockType.create: the exception raised ("" when none) and the BlockType
BlockType_create(block_count, block_size) ==
    IF \E shift \in 0..7 : Pow2(shift + 2) = block_size
    THEN [err |-> "",
          bt |-> [block_shift |-> CHOOSE shift \in 0..7 :
                                      Pow2(shift + 2) = block_size,
                  block_count |-> block_count, spare |-> 0]]
    ELSE [err |-> "RuntimeError",
          bt |-> [block_shift |-> 0, block_count |-> 0, spare |-> 0]]

\* BlockType.pack: the block_count mask 0b11111110000 keeps 7 bits
BlockType_pack(block_shift, block_count, spare) ==
    PackU32(Wide((spare \div 8) % 65536,
                 (block_shift % 16) + ((block_count % 128) * 16)
                    + ((spare % 8) * 8192)))

\* BlockType.unpack of the 4 bytes at head[at..at+3]
BlockType_unpack(head, at) ==
    LET lo == UnpackU16(head, at)
        hi == UnpackU16(head, at + 2)
    IN  [block_shift |-> lo % 16,
         block_count |-> (lo % 2048) \div 16,
         spare |-> (lo \div 8192) + (hi * 8)]

\* RDMAPayload.sizeof: the largest datagram of the protocol
RDMAPayload_sizeof == 1472

\* RDMAPayload.pack
RDMAPayload_pack(hdr, bt, data) == [head |-> hdr \o bt, tail |-> data]

\* RDMAPayload.unpack
RDMAPayload_unpack(buf) ==
    IF Len(buf.head) < 6
    THEN [err |-> "struct.error", bt |-> BlockType_unpack(<<0, 0, 0, 0>>, 1),
          data |-> <<>>]
    ELSE [err |-> "", bt |-> BlockType_unpack(buf.head, 3), data |-> buf.tail]

\* BlockDeviceServer._parse_buffer_by_header: "" or the exception raised
parse_buffer_by_header(header, buf) ==
    CASE header.cmd = UDPBD_CMD_INFO -> ""
      [] header.cmd \in {UDPBD_CMD_READ, UDPBD_CMD_WRITE} ->
            RWRequest_unpack(buf.head).err
      [] header.cmd = UDPBD_CMD_WRITE_RDMA -> RDMAPayload_unpack(buf).err
      [] OTHER -> "ValueError"

\* the exception raised by lines 148-151 of serve for a received buffer
DecodeError(buf) ==
    LET header == Header_unpack(buf.head)
    IN  IF header.err # "" THEN header.err
        ELSE parse_buffer_by_header(header, buf)

\* ------------------------------------------------------------ block devices
\* MemoryBlockDevice.__init__
MemoryBlockDevice(sector_size) ==
    [kind |-> "mem", sector_size |-> sector_size,
     sector_count |-> ToWide(DEFAULT_BLOCK_DEVICE_SIZE \div sector_size),
     ro |-> FALSE, data |-> Fresh(0, DEFAULT_BLOCK_DEVICE_SIZE),
     position |-> 0, total_read |-> 0, total_written |-> 0]

\* FileBlockDevice.__init__ on a device of fsize // sector_size = sector_count
\* sectors; data holds the first DevWindow bytes of the device
FileBlockDevice(sector_count, sector_size, ro) ==
    [kind |-> "file", sector_size |-> sector_size,
     sector_count |-> sector_count,
     ro |-> ro, data |-> Fresh(0, DevWindow),
     position |-> 0, total_read |-> 0, total_written |-> 0]

\* MemoryBlockDevice.seek
MemoryBlockDevice_seek(dev, sector_offset) ==
    [dev EXCEPT !.position = sector_offset * dev.sector_size]

\* MemoryBlockDevice.read: the device after the call, and the bytes returned
MemoryBlockDevice_read(dev, size) ==
    [dev |-> [dev EXCEPT !.position = dev.position + size,
                         !.total_read = dev.total_read + size],
     buf |-> Slice(dev.data, dev.position, dev.position + size)]

\* MemoryBlockDevice.write
MemoryBlockDevice_write_nomove(dev, data) ==
    [dev EXCEPT !.total_written = dev.total_written + BLen(data),
                !.data = Splice(dev.data, dev.position,
                                dev.position + BLen(data), data)]
MemoryBlockDevice_write(dev, data) ==
    [dev EXCEPT !.position = dev.position + BLen(data),
                !.total_written = dev.total_written + BLen(data),
                !.data = Splice(dev.data, dev.position,
                                dev.position + BLen(data), data)]

\* FileBlockDevice.seek (os.lseek inside the device)
FileBlockDevice_seek(dev, sector_offset) ==
    [dev EXCEPT !.position = dev.sector_size * sector_offset]

\* FileBlockDevice.read (os.read inside the device)
FileBlockDevice_read(dev, size) ==
    LET buf == Slice(dev.data, dev.position, dev.position + size)
    IN  [dev |-> [dev EXCEPT !.position = dev.position + BLen(buf),
                             !.total_read = dev.total_read + size],
         buf |-> buf]

\* FileBlockDevice.write (os.write inside the device)
FileBlockDevice_write_rw(dev, data) ==
    [dev EXCEPT !.position = dev.position + BLen(data),
                !.total_written = dev.total_written + BLen(data),
                !.data = Splice(dev.data, dev.position,
                                dev.position + BLen(data), data)]
FileBlockDevice_write(dev, data) ==
    IF dev.ro THEN dev
    ELSE [dev EXCEPT !.position = dev.position + BLen(data),
                     !.total_written = dev.total_written + BLen(data),
                     !.data = Splice(dev.data, dev.position,
                                     dev.position + BLen(data), data)]

\* IBlockDevice.seek / read / write
blkdev_seek(dev, sector_offset) ==
    IF dev.kind = "mem" THEN MemoryBlockDevice_seek(dev, sector_offset)
    ELSE FileBlockDevice_seek(dev, sector_offset)
blkdev_read(dev, size) ==
    IF dev.kind = "mem" THEN MemoryBlockDevice_read(dev, size)
    ELSE FileBlockDevice_read(dev, size)
blkdev_write(dev, data) ==
    IF dev.kind = "mem" THEN MemoryBlockDevice_write(dev, data)
    ELSE FileBlockDevice_write(dev, data)

\* ------------------------------------------------------------------ server
\* the derived fields written by BlockDeviceServer._set_block_shift
BlocksPerPacket_plus1(bsize) == (RDMA_MAX_PAYLOAD \div bsize) + 1
BlocksPerPacket(bsize) == RDMA_MAX_PAYLOAD \div bsize
BlocksPerSector_ceil(sector_size, bsize) == (sector_size + bsize - 1) \div bsize
BlocksPerSector(sector_size, bsize) == sector_size \div bsize

\* BlockDeviceServer._set_block_shift on the fields g of the server
set_block_shift(g, shift, sector_size) ==
    IF shift # g.block_shift
    THEN [block_shift |-> shift,
          block_size |-> Pow2(shift + 2),
          blocks_per_packet |-> BlocksPerPacket(Pow2(shift + 2)),
          blocks_per_sector |-> BlocksPerSector(sector_size, Pow2(shift + 2))]
    ELSE g

\* the shift chosen by BlockDeviceServer._set_block_shift_sectors
SelectShift_smallest(sectors, sector_size) ==
    LET size == sectors * sector_size
        packetsMIN == (size + 1440 - 1) \div 1440
        packets128 == (size + 1408 - 1) \div 1408
        packets256 == (size + 1280 - 1) \div 1280
        packets512 == (size + 1024 - 1) \div 1024
    IN  IF packets128 = packetsMIN THEN 5
        ELSE IF packets256 = packetsMIN THEN 6
        ELSE IF packets512 = packetsMIN THEN 7
        ELSE 3
SelectShift(sectors, sector_size) ==
    LET size == sectors * sector_size
        packetsMIN == (size + 1440 - 1) \div 1440
        packets128 == (size + 1408 - 1) \div 1408
        packets256 == (size + 1280 - 1) \div 1280
        packets512 == (size + 1024 - 1) \div 1024
    IN  IF packets512 = packetsMIN THEN 7
        ELSE IF packets256 = packetsMIN THEN 6
        ELSE IF packets128 = packetsMIN THEN 5
        ELSE 3

\* BlockDeviceServer._set_block_shift_sectors
set_block_shift_sectors(g, sectors, sector_size) ==
    set_block_shift(g, SelectShift(sectors, sector_size), sector_size)

\* BlockDeviceServer.__init__: the fields after self._set_block_shift(5)
InitialGeometry(sector_size) ==
    set_block_shift([block_shift |-> 0, block_size |-> 0,
                     blocks_per_packet |-> 0, blocks_per_sector |-> 0],
                    5, sector_size)

\* the block_shift that _handle_read_request puts into reply.bt: the reply
\* is built from self._block_shift before _set_block_shift_sectors runs
ReplyShift(before, after) == before.block_shift

\* the first cmdpkt of a READ reply and its increment per packet
FirstCmdpkt == 1
NextCmdpkt_stuck(cmdpkt) == cmdpkt
NextCmdpkt(cmdpkt) == cmdpkt + 1

\* block_count of the next packet (line 100)
PacketBlocks(blocks_left, bpp) ==
    IF blocks_left > bpp THEN bpp ELSE blocks_left

\* one iteration of the while loop of _handle_read_request (lines 99-105) on
\* the loop state st = [dev, blocks_left, cmdpkt, out], out the datagrams
\* sent so far
ReadStep(st, g, cmdid, bt_shift, addr) ==
    LET block_count == PacketBlocks(st.blocks_left, g.blocks_per_packet)
        r == blkdev_read(st.dev, block_count * g.block_size)
        pkt == RDMAPayload_pack(
                   Header_pack(UDPBD_CMD_READ_RDMA, cmdid, st.cmdpkt),
                   BlockType_pack(bt_shift, block_count, 0), r.buf)
    IN  [dev |-> r.dev,
         blocks_left |-> st.blocks_left - block_count,
         cmdpkt |-> NextCmdpkt(st.cmdpkt),
         out |-> Append(st.out, Datagram(addr, pkt.head, pkt.tail))]

\* the while loop: ReadStep repeated until blocks_left > 0 fails.  fuel bounds
\* the iterations left (every iteration takes at least one block); the
\* iterations are split in halves to keep the evaluation shallow
RECURSIVE ReadLoop(_, _, _, _, _, _)
ReadLoop(st, fuel, g, cmdid, bt_shift, addr) ==
    IF ~(st.blocks_left > 0) \/ fuel <= 0 THEN st
    ELSE IF fuel = 1 THEN ReadStep(st, g, cmdid, bt_shift, addr)
    ELSE ReadLoop(ReadLoop(st, fuel \div 2, g, cmdid, bt_shift, addr),
                  fuel - (fuel \div 2), g, cmdid, bt_shift, addr)

\* BlockDeviceServer._handle_read_request
handle_read_request(dev, g, hdr, req, addr) ==
    LET g2 == set_block_shift_sectors(g, req.sector_count, dev.sector_size)
        blocks_left == req.sector_count * g2.blocks_per_sector
        r == ReadLoop([dev |-> blkdev_seek(dev, req.sector_nr),
                       blocks_left |-> blocks_left,
                       cmdpkt |-> FirstCmdpkt, out |-> <<>>],
                      blocks_left, g2, hdr.cmdid, ReplyShift(g, g2), addr)
    IN  [dev |-> r.dev, g |-> g2, out |-> r.out]

\* BlockDeviceServer._handle_write_request
handle_write_request_sectors(dev, req) ==
    [dev |-> blkdev_seek(dev, req.sector_nr),
     write_size_left |-> req.sector_count]
handle_write_request_noseek(dev, req) ==
    [dev |-> dev, write_size_left |-> req.sector_count * dev.sector_size]
handle_write_request(dev, req) ==
    [dev |-> blkdev_seek(dev, req.sector_nr),
     write_size_left |-> req.sector_count * dev.sector_size]

\* the size _handle_write_rdma subtracts (line 113)
RdmaSize_count(bt) == bt.block_count
RdmaSize(bt) == bt.block_count * Pow2(bt.block_shift + 2)

\* the cmdpkt of the WRITE_DONE reply (line 127)
DoneCmdpkt_zero(cmdid) == 0
DoneCmdpkt(cmdid) == cmdid + 1

\* BlockDeviceServer._handle_write_rdma
handle_write_rdma(dev, wsl, hdr, req, addr) ==
    LET left == wsl - RdmaSize(req.bt)
    IN  [dev |-> blkdev_write(dev, req.data),
         write_size_left |-> left,
         out |-> IF left = 0
                 THEN <<Datagram(addr,
                          WriteReply_pack(Header_pack(UDPBD_CMD_WRITE_DONE,
                                            hdr.cmdid, DoneCmdpkt(hdr.cmdid)),
                                          0),
                          <<>>)>>
                 ELSE <<>>]

\* BlockDeviceServer._handle_info_request: the exception raised by
\* reply.pack(), or the datagram sent
handle_info_request_broadcast(dev, hdr, addr) ==
    LET reply == InfoReply_pack(Header_pack(UDPBD_CMD_INFO_REPLY, hdr.cmdid, 1),
                                dev.sector_size, dev.sector_count)
    IN  [err |-> reply.err,
         out |-> IF reply.err = ""
                 THEN <<Datagram("255.255.255.255", reply.bytes, <<>>)>>
                 ELSE <<>>]
handle_info_request(dev, hdr, addr) ==
    LET reply == InfoReply_pack(Header_pack(UDPBD_CMD_INFO_REPLY, hdr.cmdid, 1),
                                dev.sector_size, dev.sector_count)
    IN  [err |-> reply.err,
         out |-> IF reply.err = "" THEN <<Datagram(addr, reply.bytes, <<>>)>>
                 ELSE <<>>]

\* ------------------------------------------------------------------- state
VARIABLES
    blkdev,             \* the block device (IBlockDevice fields and contents)
    plugged,            \* environment: the underlying device is still there
    write_size_left,    \* BlockDeviceServer._write_size_left
    block_shift,        \* BlockDeviceServer._block_shift
    block_size,         \* BlockDeviceServer._block_size
    blocks_per_packet,  \* BlockDeviceServer._blocks_per_packet
    blocks_per_sector,  \* BlockDeviceServer._blocks_per_sector
    socket_open,        \* the UDP socket of the server is open
    fd_open,            \* the block device has not been closed
    pc,                 \* "serve", "stopped", "raised" or "exited"
    work,               \* work done so far (see MaxWork)
    ev,                 \* what the last loop iteration did
    last,               \* the datagram received by the last iteration
    sent,               \* the datagrams sent by the last iteration, in order
    txn,                \* history of the WRITE transaction in progress
    call                \* the last codec or selector call: op, arg, result

vars == <<blkdev, plugged, write_size_left, block_shift, block_size,
          blocks_per_packet, blocks_per_sector, socket_open, fd_open,
          pc, work, ev, last, sent, txn, call>>

\* the variables of the running server
progVars == <<blkdev, plugged, write_size_left, block_shift, block_size,
              blocks_per_packet, blocks_per_sector, socket_open, fd_open,
              pc, work, ev, last, sent, txn>>

Geo == [block_shift |-> block_shift, block_size |-> block_size,
        blocks_per_packet |-> blocks_per_packet,
        blocks_per_sector |-> blocks_per_sector]

NoDatagram == Datagram("", <<>>, <<>>)

NoCall == [op |-> "none"]

\* txn is the history of the WRITE slot since the last WRITE request:
\*   seen, addr, cmdid, sector_nr, sector_count: that WRITE and its sender
\*   payload, sized, senders: the data of the WRITE_RDMA datagrams handled
\*     since, the sum of their BlockType sizes, and their senders
\*   dones: the WRITE_DONE sent since; before: the device data at the WRITE
\*   clean: only WRITE_RDMA datagrams followed, BlockType matching the data
\*   quiet: no READ followed
\*   prev: the WRITE that this WRITE replaced, and the data that followed it
NoPrev == [seen |-> FALSE, addr |-> "", sector_nr |-> 0, sector_count |-> 0,
           payload |-> <<>>]

NoTxn == [seen |-> FALSE, addr |-> "", cmdid |-> 0,
          sector_nr |-> 0, sector_count |-> 0, dones |-> 0,
          clean |-> FALSE, quiet |-> FALSE, payload |-> <<>>, sized |-> 0,
          senders |-> {}, before |-> <<>>, prev |-> NoPrev]

\* ------------------------------------------------------------------ inputs
\* 2^32 sectors, and the sectors of a device of DevWindow bytes
HugeSectorCount == Wide(65536, 0)
WindowSectorCount(sector_size) == ToWide(DevWindow \div sector_size)

\* the devices main() may construct (--test-mode, --sector-size, --read-only)
Devices ==
    { MemoryBlockDevice(512), MemoryBlockDevice(256),
      FileBlockDevice(HugeSectorCount, 512, FALSE),
      FileBlockDevice(WindowSectorCount(512), 512, TRUE) }

\* a sector just before the end of the 16 MiB device at sector size 512,
\* and a sector past the end of it at both sector sizes
NearEndSector == (DEFAULT_BLOCK_DEVICE_SIZE \div 512) - 1
PastEndSector == (DEFAULT_BLOCK_DEVICE_SIZE \div 256) + 1

\* WRITE_RDMA datagram with the BlockType bytes of (shift, count) and n data
\* bytes of source k
RdmaBuf(addr, cmdid, shift, count, n, k) ==
    Datagram(addr,
             Header_pack(UDPBD_CMD_WRITE_RDMA, cmdid, 0)
                \o BlockType_pack(shift, count, 0),
             Fresh(k, n))

\* the datagrams a client may send that decode
GoodBufs(k) ==
    { Datagram("B", InfoRequest_pack(6, 0), <<>>),
      Datagram("A", RWRequest_pack(UDPBD_CMD_READ, 1, 0, 1, 1), <<>>),
      Datagram("A", RWRequest_pack(UDPBD_CMD_READ, 1, 0, 1, 11), <<>>),
      Datagram("A", RWRequest_pack(UDPBD_CMD_READ, 1, 0, 1, 14), <<>>),
      Datagram("A", RWRequest_pack(UDPBD_CMD_READ, 3, 0, 0, BigRead), <<>>),
      Datagram("B", RWRequest_pack(UDPBD_CMD_READ, 6, 0, NearEndSector, 5), <<>>),
      Datagram("A", RWRequest_pack(UDPBD_CMD_WRITE, 1, 0, 1, 2), <<>>),
      Datagram("B", RWRequest_pack(UDPBD_CMD_WRITE, 6, 0, PastEndSector, 1), <<>>),
      RdmaBuf("A", 2, 7, 1, 512, k),
      RdmaBuf("A", 2, 7, 2, 1024, k),
      RdmaBuf("B", 5, 5, 0, 0, k),
      RdmaBuf("A", 2, 7, 1, 100, k) }

\* datagrams that do not decode, or carry a command the server does not serve
BadBufs ==
    { Datagram("A", <<5>>, <<>>),
      Datagram("A", <<7, 0>>, <<>>),
      Datagram("A", Header_pack(UDPBD_CMD_INFO_REPLY, 1, 1), <<>>),
      Datagram("A", Header_pack(UDPBD_CMD_WRITE_DONE, 1, 2), <<>>),
      Datagram("A", Header_pack(UDPBD_CMD_READ, 1, 0) \o <<1, 0>>, <<>>) }

Inputs(k) == GoodBufs(k) \cup BadBufs

\* ------------------------------------------------------------------- Init
\* main() up to server.serve(): the device, then BlockDeviceServer.__init__
Init ==
    /\ blkdev \in Devices
    /\ plugged = TRUE
    /\ write_size_left = 0
    /\ block_shift = InitialGeometry(blkdev.sector_size).block_shift
    /\ block_size = InitialGeometry(blkdev.sector_size).block_size
    /\ blocks_per_packet = InitialGeometry(blkdev.sector_size).blocks_per_packet
    /\ blocks_per_sector = InitialGeometry(blkdev.sector_size).blocks_per_sector
    /\ socket_open = TRUE
    /\ fd_open = TRUE
    /\ pc = "serve"
    /\ work = 0
    /\ ev = "start"
    /\ last = NoDatagram
    /\ sent = <<>>
    /\ txn = NoTxn
    /\ call = NoCall

\* ---------------------------------------------------------------- actions
\* MemoryBlockDevice.available / FileBlockDevice.available
blkdev_available_always == TRUE
blkdev_available == IF blkdev.kind = "mem" THEN TRUE ELSE plugged

\* the work of handling buf
Cost(buf) ==
    IF DecodeError(buf) = "" /\ Header_unpack(buf.head).cmd = UDPBD_CMD_READ
    THEN 1 + (RWRequest_unpack(buf.head).sector_count \div 256)
    ELSE 1

\* serve: available() held and recvfrom returned buf
Received(buf) ==
    /\ pc = "serve"
    /\ blkdev_available
    /\ work + Cost(buf) <= MaxWork
    /\ work' = work + Cost(buf)
    /\ last' = buf
    /\ UNCHANGED call

ServerUnchanged ==
    UNCHANGED <<write_size_left, block_shift, block_size, blocks_per_packet,
                blocks_per_sector>>

\* serve, lines 148-151: Header.unpack or _parse_buffer_by_header raises
RecvUndecodable ==
    \E buf \in BadBufs \cup GoodBufs(work + 1) :
        /\ Received(buf)
        /\ DecodeError(buf) # ""
        /\ pc' = "raised"
        /\ ev' = DecodeError(buf)
        /\ sent' = <<>>
        /\ ServerUnchanged
        /\ UNCHANGED <<blkdev, plugged, socket_open, fd_open, txn>>

\* serve, case UDPBD_CMD_INFO
RecvInfo ==
    \E buf \in GoodBufs(work + 1) :
        LET hdr == Header_unpack(buf.head)
            r == handle_info_request(blkdev, hdr, buf.addr)
        IN  /\ Received(buf)
            /\ DecodeError(buf) = ""
            /\ hdr.cmd = UDPBD_CMD_INFO
            /\ pc' = IF r.err = "" THEN "serve" ELSE "raised"
            /\ ev' = IF r.err = "" THEN "info" ELSE r.err
            /\ sent' = r.out
            /\ txn' = [txn EXCEPT !.clean = FALSE]
            /\ ServerUnchanged
            /\ UNCHANGED <<blkdev, plugged, socket_open, fd_open>>

\* the outcome of _handle_read_request when buf decodes to a READ
ReadOutcomes(buf) ==
    IF DecodeError(buf) = "" /\ Header_unpack(buf.head).cmd = UDPBD_CMD_READ
    THEN {handle_read_request(blkdev, Geo, Header_unpack(buf.head),
                              RWRequest_unpack(buf.head), buf.addr)}
    ELSE {}

\* serve, case UDPBD_CMD_READ
RecvRead ==
    \E buf \in GoodBufs(work + 1) :
        /\ Received(buf)
        /\ \E r \in ReadOutcomes(buf) :
            /\ blkdev' = r.dev
            /\ block_shift' = r.g.block_shift
            /\ block_size' = r.g.block_size
            /\ blocks_per_packet' = r.g.blocks_per_packet
            /\ blocks_per_sector' = r.g.blocks_per_sector
            /\ sent' = r.out
            /\ ev' = "read"
            /\ txn' = [txn EXCEPT !.clean = FALSE, !.quiet = FALSE]
            /\ UNCHANGED <<write_size_left, plugged, socket_open, fd_open, pc>>

\* serve, case UDPBD_CMD_WRITE
RecvWrite ==
    \E buf \in GoodBufs(work + 1) :
        LET hdr == Header_unpack(buf.head)
            req == RWRequest_unpack(buf.head)
            r == handle_write_request(blkdev, req)
        IN  /\ Received(buf)
            /\ DecodeError(buf) = ""
            /\ hdr.cmd = UDPBD_CMD_WRITE
            /\ blkdev' = r.dev
            /\ write_size_left' = r.write_size_left
            /\ sent' = <<>>
            /\ ev' = "write"
            /\ txn' = [seen |-> TRUE, addr |-> buf.addr, cmdid |-> hdr.cmdid,
                       sector_nr |-> req.sector_nr,
                       sector_count |-> req.sector_count, dones |-> 0,
                       clean |-> TRUE, quiet |-> TRUE, payload |-> <<>>,
                       sized |-> 0, senders |-> {},
                       before |-> blkdev.data,
                       prev |-> [seen |-> txn.seen, addr |-> txn.addr,
                                 sector_nr |-> txn.sector_nr,
                                 sector_count |-> txn.sector_count,
                                 payload |-> txn.payload]]
            /\ UNCHANGED <<block_shift, block_size, blocks_per_packet,
                           blocks_per_sector, plugged, socket_open, fd_open, pc>>

\* serve, case UDPBD_CMD_WRITE_RDMA
RecvWriteRdma ==
    \E buf \in GoodBufs(work + 1) :
        LET hdr == Header_unpack(buf.head)
            req == RDMAPayload_unpack(buf)
            r == handle_write_rdma(blkdev, write_size_left, hdr, req, buf.addr)
        IN  /\ Received(buf)
            /\ DecodeError(buf) = ""
            /\ hdr.cmd = UDPBD_CMD_WRITE_RDMA
            /\ blkdev' = r.dev
            /\ write_size_left' = r.write_size_left
            /\ sent' = r.out
            /\ ev' = "write_rdma"
            /\ txn' = [txn EXCEPT
                         !.dones = @ + Len(r.out),
                         !.clean = @ /\ RdmaSize(req.bt) = BLen(req.data),
                         !.payload = BCat(@, req.data),
                         !.sized = @ + RdmaSize(req.bt),
                         !.senders = @ \cup {buf.addr}]
            /\ UNCHANGED <<block_shift, block_size, blocks_per_packet,
                           blocks_per_sector, plugged, socket_open, fd_open, pc>>

\* the server after a handler ran up to its first socket.sendto, for a
\* received buf whose handler sends: INFO (line 77), READ (line 103, after
\* the first read) and the WRITE_RDMA that completes a transfer (line 130)
SendOutcomes(buf) ==
    LET hdr == Header_unpack(buf.head)
    IN  IF DecodeError(buf) # "" THEN {}
        ELSE IF hdr.cmd = UDPBD_CMD_INFO
        THEN IF handle_info_request(blkdev, hdr, buf.addr).err = ""
             THEN {[dev |-> blkdev, g |-> Geo,
                    write_size_left |-> write_size_left,
                    txn |-> [txn EXCEPT !.clean = FALSE]]}
             ELSE {}
        ELSE IF hdr.cmd = UDPBD_CMD_READ
        THEN LET req == RWRequest_unpack(buf.head)
                 g2 == set_block_shift_sectors(Geo, req.sector_count,
                                               blkdev.sector_size)
                 st == [dev |-> blkdev_seek(blkdev, req.sector_nr),
                        blocks_left |-> req.sector_count * g2.blocks_per_sector,
                        cmdpkt |-> FirstCmdpkt, out |-> <<>>]
             IN  IF st.blocks_left > 0
                 THEN {[dev |-> ReadStep(st, g2, hdr.cmdid, ReplyShift(Geo, g2),
                                         buf.addr).dev,
                        g |-> g2, write_size_left |-> write_size_left,
                        txn |-> [txn EXCEPT !.clean = FALSE, !.quiet = FALSE]]}
                 ELSE {}
        ELSE IF hdr.cmd = UDPBD_CMD_WRITE_RDMA
        THEN LET req == RDMAPayload_unpack(buf)
                 r == handle_write_rdma(blkdev, write_size_left, hdr, req,
                                        buf.addr)
             IN  IF Len(r.out) > 0
                 THEN {[dev |-> r.dev, g |-> Geo,
                        write_size_left |-> r.write_size_left,
                        txn |-> [txn EXCEPT
                                   !.clean = @ /\ RdmaSize(req.bt) = BLen(req.data),
                                   !.payload = BCat(@, req.data),
                                   !.sized = @ + RdmaSize(req.bt),
                                   !.senders = @ \cup {buf.addr}]]}
                 ELSE {}
        ELSE {}

\* serve: socket.sendto raises OSError inside a handler; nothing catches it
SendRaises ==
    \E buf \in GoodBufs(work + 1) :
        /\ Received(buf)
        /\ \E r \in SendOutcomes(buf) :
            /\ blkdev' = r.dev
            /\ write_size_left' = r.write_size_left
            /\ block_shift' = r.g.block_shift
            /\ block_size' = r.g.block_size
            /\ blocks_per_packet' = r.g.blocks_per_packet
            /\ blocks_per_sector' = r.g.blocks_per_sector
            /\ txn' = r.txn
            /\ sent' = <<>>
            /\ ev' = "OSError"
            /\ pc' = "raised"
            /\ UNCHANGED <<plugged, socket_open, fd_open>>

\* serve: recvfrom raises TimeoutError, the loop continues
RecvTimeout ==
    /\ pc = "serve"
    /\ blkdev_available
    /\ ev' = "timeout"
    /\ last' = NoDatagram
    /\ sent' = <<>>
    /\ ServerUnchanged
    /\ UNCHANGED <<blkdev, plugged, socket_open, fd_open, pc, work, txn, call>>

\* serve: recvfrom raises another OSError, the loop breaks
RecvOSError ==
    /\ pc = "serve"
    /\ blkdev_available
    /\ pc' = "stopped"
    /\ ev' = "oserror"
    /\ last' = NoDatagram
    /\ sent' = <<>>
    /\ ServerUnchanged
    /\ UNCHANGED <<blkdev, plugged, socket_open, fd_open, work, txn, call>>

\* serve: available() returns False, the loop breaks
DeviceUnavailable ==
    /\ pc = "serve"
    /\ ~blkdev_available
    /\ pc' = "stopped"
    /\ ev' = "unavailable"
    /\ last' = NoDatagram
    /\ sent' = <<>>
    /\ ServerUnchanged
    /\ UNCHANGED <<blkdev, plugged, socket_open, fd_open, work, txn, call>>

\* environment: the device behind a file-backed handle is removed
Unplug ==
    /\ pc = "serve"
    /\ blkdev.kind = "file"
    /\ plugged
    /\ plugged' = FALSE
    /\ ServerUnchanged
    /\ UNCHANGED <<blkdev, socket_open, fd_open, pc, work, ev, last, sent, txn,
                   call>>

\* main: the finally clause, server.close() then blkdev.close()
Finally_leak ==
    /\ pc \in {"stopped", "raised"}
    /\ socket_open' = FALSE
    /\ fd_open' = (blkdev.kind = "file")
    /\ pc' = "exited"
    /\ ServerUnchanged
    /\ UNCHANGED <<blkdev, plugged, work, ev, last, sent, txn, call>>
Finally ==
    /\ pc \in {"stopped", "raised"}
    /\ socket_open' = FALSE
    /\ fd_open' = FALSE
    /\ pc' = "exited"
    /\ ServerUnchanged
    /\ UNCHANGED <<blkdev, plugged, work, ev, last, sent, txn, call>>

Next ==
    \/ RecvUndecodable
    \/ RecvInfo
    \/ RecvRead
    \/ RecvWrite
    \/ RecvWriteRdma
    \/ SendRaises
    \/ RecvTimeout
    \/ RecvOSError
    \/ DeviceUnavailable
    \/ Unplug
    \/ Finally

Spec == Init /\ [][Next]_vars

\* serve(timeout=1): an iteration of the loop is one step and always ends
\* (recvfrom returns a datagram, an error, or times out), so the loop comes
\* back to the available() check; when the check fails the loop runs it
LiveSpec == Spec /\ WF_vars(DeviceUnavailable)

\* ------------------------------------------------- the codec on its own
\* proto.py and the block-shift selector applied to chosen arguments: call
\* records the operation, its argument, the bytes
\* produced and the value returned, one call per run.  The server does not
\* run.
CodecInit == Init /\ blkdev = MemoryBlockDevice(512)

\* BlockType(block_shift, block_count, spare).pack(), then BlockType.unpack
CallBlockType ==
    /\ call = NoCall
    /\ \E shift \in 0..7, count \in 0..MaxBlockCount :
          LET bytes == BlockType_pack(shift, count, 0)
          IN  call' = [op |-> "BlockType",
                       arg |-> [block_shift |-> shift,
                                block_count |-> count, spare |-> 0],
                       bytes |-> bytes,
                       result |-> BlockType_unpack(bytes, 1)]
    /\ UNCHANGED progVars

\* Header(cmd, cmdid, cmdpkt).pack(), then Header.unpack; cmd is a member of
\* the Command enum
CallHeader ==
    /\ call = NoCall
    /\ \E cmd \in UDPBD_CMD_INFO..UDPBD_CMD_WRITE_DONE,
          cmdid \in 0..MaxCmdid, cmdpkt \in 0..MaxCmdpkt :
          LET bytes == Header_pack(cmd, cmdid, cmdpkt)
              h == Header_unpack(bytes)
          IN  call' = [op |-> "Header",
                       arg |-> [cmd |-> cmd, cmdid |-> cmdid,
                                cmdpkt |-> cmdpkt],
                       bytes |-> bytes,
                       result |-> [cmd |-> h.cmd, cmdid |-> h.cmdid,
                                   cmdpkt |-> h.cmdpkt],
                       err |-> h.err]
    /\ UNCHANGED progVars

\* _set_block_shift_sectors(sectors) on a server of a 512-byte-sector device
\* whose current shift is any of the shifts the selector can leave behind
CallSelect ==
    /\ call = NoCall
    /\ \E sectors \in 1..MaxSectors, shift \in {3, 5, 6, 7} :
          LET g == set_block_shift([block_shift |-> 0, block_size |-> 0,
                                    blocks_per_packet |-> 0,
                                    blocks_per_sector |-> 0], shift, 512)
          IN  call' = [op |-> "select",
                       arg |-> [sectors |-> sectors, sector_size |-> 512,
                                block_shift |-> shift],
                       result |-> set_block_shift_sectors(g, sectors, 512)]
    /\ UNCHANGED progVars

\* BlockType.create(block_count, block_size)
CallCreate ==
    /\ call = NoCall
    /\ \E count \in {0, 1, MaxBlockCount}, bsize \in 0..MaxBlockSize :
          LET r == BlockType_create(count, bsize)
          IN  call' = [op |-> "create",
                       arg |-> [block_count |-> count, block_size |-> bsize],
                       result |-> r.bt,
                       err |-> r.err]
    /\ UNCHANGED progVars

CodecNext ==
    \/ CallBlockType
    \/ CallHeader
    \/ CallSelect
    \/ CallCreate

CodecSpec == CodecInit /\ [][CodecNext]_vars

\* ------------------------------------------------- reading the wire format
\* The fields of an emitted datagram d, by the protocol's layout: Header is
\* cmd (bits 0-4), cmdid (5-7), cmdpkt (8-15); BlockType is block_shift
\* (bits 0-3), block_count (4-12), spare (13-31).
WireCmd(d) == d.head[1] % 32
WireCmdid(d) == d.head[1] \div 32
WireCmdpkt(d) == d.head[2]
WireBlockShift(d) == d.head[3] % 16
WireBlockCount(d) == ((d.head[3] + 256 * d.head[4]) % 8192) \div 16
WireSpare(d) ==
    (d.head[4] \div 32) + 8 * d.head[5] + 2048 * d.head[6]

\* the datagram received by the last iteration decoded to command cmd
LastIs(cmd) ==
    /\ last # NoDatagram
    /\ DecodeError(last) = ""
    /\ Header_unpack(last.head).cmd = cmd
LastHdr == Header_unpack(last.head)
LastReq == RWRequest_unpack(last.head)

\* the requested sectors of the last READ lie inside the device
ReadInRange ==
    (LastReq.sector_nr + LastReq.sector_count) * blkdev.sector_size
        <= BLen(blkdev.data)

\* the data of the datagrams s[i..j], concatenated in order
RECURSIVE CatRange(_, _, _)
CatRange(s, i, j) ==
    IF i > j THEN <<>>
    ELSE IF i = j THEN s[i].tail
    ELSE BCat(CatRange(s, i, (i + j) \div 2),
              CatRange(s, ((i + j) \div 2) + 1, j))
SentData == CatRange(sent, 1, Len(sent))

CeilDiv(a, b) == (a + b - 1) \div b

\* ------------------------------------------------------------------ claims
\* C1: every READ_RDMA packet emitted for a READ carries the block_shift the
\* selector chose for that READ, its data length is block_count *
\* (1 << (block_shift + 2)) for the block_shift and block_count written in
\* the packet, and spare is 0.  (Stated for READs inside the device.)
C1_ReadBlockType ==
    (ev = "read" /\ ReadInRange) =>
        \A i \in 1..Len(sent) :
            /\ WireCmd(sent[i]) = UDPBD_CMD_READ_RDMA
            /\ WireBlockShift(sent[i])
                 = SelectShift(LastReq.sector_count, blkdev.sector_size)
            /\ BLen(sent[i].tail)
                 = WireBlockCount(sent[i]) * Pow2(WireBlockShift(sent[i]) + 2)
            /\ WireSpare(sent[i]) = 0

\* C2: for a READ of N sectors at sector_nr inside the device, the data of
\* the emitted READ_RDMA packets, concatenated in emission order, is the
\* device bytes [sector_nr*sector_size, (sector_nr+N)*sector_size), of total
\* length N * sector_size, for every sector size.
C2_ReadData ==
    (ev = "read" /\ ReadInRange) =>
        /\ SentData = Slice(blkdev.data,
                            LastReq.sector_nr * blkdev.sector_size,
                            (LastReq.sector_nr + LastReq.sector_count)
                                * blkdev.sector_size)
        /\ BLen(SentData) = LastReq.sector_count * blkdev.sector_size

\* C3: a READ of N sectors emits ceil(N*sector_size / (blocks_per_packet *
\* block_size)) packets for the selected block size; every packet has
\* 1 <= block_count <= blocks_per_packet and all but the last have
\* block_count = blocks_per_packet.
C3_ReadPacketCount ==
    ev = "read" =>
        /\ Len(sent) = CeilDiv(LastReq.sector_count * blkdev.sector_size,
                               blocks_per_packet * block_size)
        /\ \A i \in 1..Len(sent) :
            /\ 1 <= WireBlockCount(sent[i])
            /\ WireBlockCount(sent[i]) <= blocks_per_packet
            /\ i < Len(sent) => WireBlockCount(sent[i]) = blocks_per_packet

\* C4 as claimed: the cmdpkt values on the wire of the packets of a READ are
\* 1, 2, ..., count in emission order, for every N.
C4_CmdpktSequence ==
    ev = "read" => \A i \in 1..Len(sent) : WireCmdpkt(sent[i]) = i

\* C4 as amended: the i-th packet of a READ carries cmdpkt i mod 256 on the
\* wire, so the values are 1, 2, ..., count exactly when count <= 255.
C4_CmdpktWraps ==
    ev = "read" =>
        /\ \A i \in 1..Len(sent) : WireCmdpkt(sent[i]) = i % 256
        /\ Len(sent) <= 255 =>
              \A i \in 1..Len(sent) : WireCmdpkt(sent[i]) = i

\* C4 witness: a READ that emitted more than 255 packets
C4_Witness == ev = "read" /\ Len(sent) > 255

\* a WRITE_DONE was sent by the last iteration
DoneSent == \E i \in 1..Len(sent) : WireCmd(sent[i]) = UDPBD_CMD_WRITE_DONE

\* C5: WRITE_DONE is emitted at most once per WRITE, never without a
\* preceding WRITE, and only by the WRITE_RDMA that brings write_size_left
\* to zero.  txn.dones counts the WRITE_DONE sent since the last WRITE (or
\* since start-up), txn.seen says a WRITE was received.
C5_WriteDoneOnce ==
    /\ txn.dones <= 1
    /\ txn.dones > 0 => txn.seen
    /\ DoneSent => (ev = "write_rdma" /\ write_size_left = 0)

\* the byte range [a, b) of the WRITE transaction in progress
TxnFrom == txn.sector_nr * blkdev.sector_size
TxnTo == (txn.sector_nr + txn.sector_count) * blkdev.sector_size

\* a WRITE followed only by WRITE_RDMA datagrams whose BlockType matches
\* their data has just received its last data byte
TxnComplete ==
    /\ ev = "write_rdma"
    /\ txn.seen
    /\ txn.clean
    /\ BLen(txn.payload) = txn.sector_count * blkdev.sector_size

\* the range of the WRITE lies inside the device
TxnInRange == TxnTo <= BLen(txn.before)

TxnDelivered == TxnComplete /\ TxnInRange

C7_StrayRdmaDropped ==
    [][(/\ work' # work
        /\ ev' = "write_rdma"
        /\ write_size_left = 0
        /\ (~txn.seen \/ txn.dones > 0))
       => (/\ blkdev'.data = blkdev.data
           /\ write_size_left' = 0
           /\ sent' = <<>>)]_vars

\* C8: a received datagram that does not decode, or carries a command other
\* than INFO, READ, WRITE, WRITE_RDMA, is dropped: nothing is sent, server
\* state and device are unchanged and the serve loop keeps running.
C8_BadDatagramDropped ==
    [][(work' # work /\ DecodeError(last') # "")
       => (/\ sent' = <<>>
           /\ blkdev' = blkdev
           /\ write_size_left' = write_size_left
           /\ Geo' = Geo
           /\ pc' = "serve")]_vars

\* C9: every INFO request is answered by exactly one datagram, sent to the
\* request's source address: an InfoReply (10 bytes) with cmd INFO_REPLY,
\* the request's cmdid, cmdpkt 1 and the device's sector_size and
\* sector_count, for every sector_count the device can report.  (An INFO
\* whose sendto raised OSError is not counted.)
C9_InfoReply ==
    (LastIs(UDPBD_CMD_INFO) /\ ev # "OSError") =>
        /\ Len(sent) = 1
        /\ sent[1].addr = last.addr
        /\ BufLen(sent[1]) = 10
        /\ WireCmd(sent[1]) = UDPBD_CMD_INFO_REPLY
        /\ WireCmdid(sent[1]) = LastHdr.cmdid
        /\ WireCmdpkt(sent[1]) = 1
        /\ UnpackU32(sent[1].head, 3) = ToWide(blkdev.sector_size)
        /\ UnpackU32(sent[1].head, 7) = blkdev.sector_count

\* C10: every datagram the server emits is at most 1472 bytes long, and
\* every READ_RDMA packet carries at most 1466 data bytes.
C10_FrameSize ==
    \A i \in 1..Len(sent) :
        /\ BufLen(sent[i]) <= RDMAPayload_sizeof
        /\ WireCmd(sent[i]) = UDPBD_CMD_READ_RDMA
              => BLen(sent[i].tail) <= RDMA_MAX_PAYLOAD

\* C10 witness: a READ emitted a full packet of 45 blocks of 32 bytes
C10_Witness ==
    /\ ev = "read"
    /\ \E i \in 1..Len(sent) :
          BLen(sent[i].tail) = 1440 /\ BufLen(sent[i]) = 1446
\* C11: BlockType round-trips through the codec: for block_shift in 3..7,
\* block_count in 0..511 and spare = 0, unpack(pack(b)) = b, and block_count
\* occupies bits 4-12 of the little-endian 32-bit word.
C11_BlockTypeRoundTrip ==
    (/\ call.op = "BlockType"
     /\ call.arg.block_shift \in 3..7
     /\ call.arg.block_count \in 0..511)
    => /\ call.result = call.arg
       /\ ((UnpackU16(call.bytes, 1) % 8192) \div 16) = call.arg.block_count

PacketsAt(shift, size) ==
    CeilDiv(size, (RDMA_MAX_PAYLOAD \div Pow2(shift + 2)) * Pow2(shift + 2))

\* the largest shift of 7, 6, 5 that needs no more packets than block size
\* 32 (shift 3), else 3
BestShift(size) ==
    IF \E s \in {5, 6, 7} : PacketsAt(s, size) = PacketsAt(3, size)
    THEN CHOOSE s \in {5, 6, 7} :
            /\ PacketsAt(s, size) = PacketsAt(3, size)
            /\ \A t \in {5, 6, 7} :
                  PacketsAt(t, size) = PacketsAt(3, size) => t <= s
    ELSE 3

\* C13: for N_sectors in 1..4096 at sector_size 512 the selector chooses the
\* largest shift of 7, 6, 5 whose packet count equals that of block size 32,
\* else 3; the packet count at the chosen shift is <= the packet count at
\* every shift in 3..7; and blocks_per_packet * block_size <= 1466.
C13_ShiftSelection ==
    (call.op = "select" /\ call.arg.sectors \in 1..4096)
    => LET size == call.arg.sectors * call.arg.sector_size
           chosen == call.result.block_shift
       IN  /\ chosen = BestShift(size)
           /\ call.result.block_size = Pow2(chosen + 2)
           /\ \A s \in 3..7 : PacketsAt(chosen, size) <= PacketsAt(s, size)
           /\ call.result.blocks_per_packet * call.result.block_size
                 <= RDMA_MAX_PAYLOAD

\* C13 witness: 11 sectors (5632 bytes) need 4 packets at block sizes 32
\* and 128 but 5 at 256: the selector moved from shift 7 to shift 5
C13_Witness ==
    /\ call.op = "select"
    /\ call.arg.sectors = 11
    /\ call.arg.block_shift = 7
    /\ call.result.block_shift = 5
    /\ PacketsAt(6, 11 * 512) = 5

\* C16: BlockType.create fails with an unsupported-block-size error for
\* every block_size that is not one of 32, 64, 128, 256, 512, and for each
\* of those five returns the shift s with 1 << (s + 2) = block_size, the
\* given block_count and spare = 0.
C16_CreateBlockType ==
    call.op = "create" =>
        IF call.arg.block_size \in {32, 64, 128, 256, 512}
        THEN /\ call.err = ""
             /\ Pow2(call.result.block_shift + 2) = call.arg.block_size
             /\ call.result.block_count = call.arg.block_count
             /\ call.result.spare = 0
        ELSE call.err # ""

\* C14: when write_size_left reaches zero the server sends one WriteReply
\* to the source address of the WRITE_RDMA datagram that completed the
\* transfer: cmd WRITE_DONE, the cmdid of that datagram (not of the WRITE),
\* cmdpkt = that cmdid + 1, result 0.
C14_WriteDoneReply ==
    (ev = "write_rdma" /\ write_size_left = 0) =>
        /\ Len(sent) = 1
        /\ sent[1].addr = last.addr
        /\ sent[1].tail = <<>>
        /\ sent[1].head = <<UDPBD_CMD_WRITE_DONE + (32 * LastHdr.cmdid),
                            LastHdr.cmdid + 1, 0, 0, 0, 0>>

\* C14 witness: a WRITE from one client completed by a WRITE_RDMA from
\* another address with another cmdid
C14_Witness ==
    /\ ev = "write_rdma"
    /\ write_size_left = 0
    /\ txn.seen
    /\ BLen(txn.payload) > 0
    /\ txn.addr # last.addr
    /\ txn.cmdid # LastHdr.cmdid
    /\ Len(sent) = 1

\* C15: on a read-only file-backed device every WRITE_RDMA payload is
\* discarded (device contents and the bytes-written counter unchanged), yet
\* write_size_left is decremented by the payload's size and WRITE_DONE with
\* result 0 is emitted when it reaches zero.
C15_ReadOnlyDiscard ==
    [][(work' # work /\ ev' = "write_rdma" /\ blkdev.kind = "file" /\ blkdev.ro)
       => (/\ blkdev'.data = blkdev.data
           /\ blkdev'.total_written = blkdev.total_written
           /\ write_size_left'
                 = write_size_left - RdmaSize(RDMAPayload_unpack(last').bt)
           /\ write_size_left' = 0 =>
                 /\ Len(sent') = 1
                 /\ WireCmd(sent'[1]) = UDPBD_CMD_WRITE_DONE
                 /\ UnpackU32(sent'[1].head, 3) = ToWide(0))]_vars

\* C15 witness: a two-sector WRITE to the read-only device was answered
\* with WRITE_DONE after 1024 payload bytes
C15_Witness ==
    /\ blkdev.kind = "file"
    /\ blkdev.ro
    /\ ev = "write_rdma"
    /\ txn.seen
    /\ txn.sector_count = 2
    /\ BLen(txn.payload) = 1024
    /\ write_size_left = 0
    /\ DoneSent

C18_ExitOnUnavailable ==
    /\ (pc = "serve" /\ blkdev.kind = "file" /\ ~plugged) ~> (pc # "serve")
    /\ [][(pc = "serve" /\ blkdev.kind = "file" /\ ~plugged)
            => (/\ pc' = "stopped"
                /\ ev' = "unavailable"
                /\ work' = work
                /\ sent' = <<>>
                /\ blkdev' = blkdev
                /\ write_size_left' = write_size_left)]_vars
    /\ [][(pc = "serve" /\ ev' = "oserror") => pc' = "stopped"]_vars
    /\ [][(pc = "serve" /\ ev' = "timeout") => pc' = "serve"]_vars

\* C18 witness: the loop was left because the device had been removed after
\* a datagram was handled
C18_Witness ==
    /\ pc = "stopped"
    /\ ev = "unavailable"
    /\ ~plugged
    /\ work > 0

\* C19: on every exit path of the serve loop (device unavailable, socket
\* error on receive, an exception raised while decoding or handling a
\* datagram or sending a reply) the UDP socket and the block device are both
\* closed when the program has ended, and the program does end.
C19_ClosedOnExit ==
    /\ pc = "exited" => (~socket_open /\ ~fd_open)
    /\ pc \in {"stopped", "raised"} => ENABLED Finally

\* C19 witness: the program has ended after sendto raised in a handler
C19_Witness ==
    /\ pc = "exited"
    /\ ev = "OSError"
    /\ ~socket_open
    /\ ~fd_open

\* C20: the memory-backed device is a fixed-size buffer: after any sequence
\* of seeks, reads and writes (past the end included) its backing buffer
\* still has the initial 16 MiB, which is sector_count * sector_size.
C20_MemoryFixedSize ==
    blkdev.kind = "mem" =>
        /\ BLen(blkdev.data) = DEFAULT_BLOCK_DEVICE_SIZE
        /\ BLen(blkdev.data) = Narrow(blkdev.sector_count) * blkdev.sector_size

\* C21: the server is strictly request-reply.  Every datagram it sends is
\* sent while it handles a received INFO, READ or WRITE_RDMA datagram and is
\* addressed to that datagram's source; nothing is sent at start-up, on a
\* receive timeout or on shutdown; all READ_RDMA packets of a READ are sent
\* while that READ is handled, before the next datagram is received.
C21_RequestReply ==
    /\ \A i \in 1..Len(sent) : sent[i].addr = last.addr
    /\ sent # <<>> =>
          \/ ev = "info" /\ LastIs(UDPBD_CMD_INFO)
          \/ ev = "read" /\ LastIs(UDPBD_CMD_READ)
          \/ ev = "write_rdma" /\ LastIs(UDPBD_CMD_WRITE_RDMA)
    /\ ev \in {"start", "timeout", "unavailable", "oserror"} => sent = <<>>
    /\ pc # "serve" => sent = <<>>
    /\ \A i \in 1..Len(sent) :
          /\ WireCmd(sent[i]) = UDPBD_CMD_READ_RDMA
                => (ev = "read" /\ WireCmdid(sent[i]) = LastHdr.cmdid)
          /\ WireCmd(sent[i]) = UDPBD_CMD_INFO_REPLY => ev = "info"
          /\ WireCmd(sent[i]) = UDPBD_CMD_WRITE_DONE => ev = "write_rdma"

\* C21 witness: the four packets of an 11-sector READ, all sent to its sender
\* while it was handled
C21_Witness ==
    /\ ev = "read"
    /\ LastIs(UDPBD_CMD_READ)
    /\ LastReq.sector_count = 11
    /\ Len(sent) = 4
    /\ \A i \in 1..Len(sent) : sent[i].addr = "A"

\* C22: handling a WRITE request, in any server state (an earlier WRITE
\* still incomplete included), puts the device cursor at sector_nr *
\* sector_size, sets write_size_left to sector_count * sector_size
\* whatever it was, sends nothing, and leaves block_shift and the device
\* contents unchanged.
C22_WriteRequest ==
    [][(work' # work /\ ev' = "write")
       => (/\ blkdev'.position
                 = RWRequest_unpack(last'.head).sector_nr * blkdev.sector_size
           /\ write_size_left'
                 = RWRequest_unpack(last'.head).sector_count * blkdev.sector_size
           /\ sent' = <<>>
           /\ Geo' = Geo
           /\ blkdev'.data = blkdev.data
           /\ pc' = pc)]_vars

\* C22 witness: a WRITE handled while the WRITE before it was incomplete
\* (one sector outstanding and no payload arrived)
C22_Witness ==
    /\ ev = "write"
    /\ txn.prev.seen
    /\ txn.prev.sector_count = 1
    /\ txn.prev.payload = <<>>
    /\ txn.sector_count = 2
    /\ write_size_left = 2 * blkdev.sector_size
    /\ blkdev.position = blkdev.sector_size

\* C23: for each WRITE_RDMA datagram write_size_left is decremented by
\* block_count * (1 << (block_shift + 2)) of the packet's decoded
\* BlockType, while all len(data) bytes are handed to the device, which (if
\* writable) writes them at the cursor and advances the cursor by len(data),
\* also when the two sizes differ.
C23_RdmaAccounting ==
    [][(work' # work /\ ev' = "write_rdma")
       => LET bt == BlockType_unpack(last'.head, 3)
              data == last'.tail
          IN  /\ write_size_left'
                    = write_size_left
                        - (bt.block_count * Pow2(bt.block_shift + 2))
              /\ ~blkdev.ro =>
                    /\ blkdev'.data
                          = Splice(blkdev.data, blkdev.position,
                                   blkdev.position + BLen(data), data)
                    /\ blkdev'.position = blkdev.position + BLen(data)
                    /\ blkdev'.total_written
                          = blkdev.total_written + BLen(data)]_vars

\* C23 witness: after a WRITE, one payload of 100 data bytes whose BlockType
\* says 512: the cursor is 100 past the WRITE's sector, the count 512 down
C23_Witness ==
    /\ ev = "write_rdma"
    /\ txn.seen /\ txn.quiet
    /\ ~blkdev.ro
    /\ Len(txn.payload) = 1
    /\ BLen(txn.payload) = 100
    /\ BlockType_unpack(last.head, 3) = [block_shift |-> 7, block_count |-> 1,
                                         spare |-> 0]
    /\ blkdev.position = TxnFrom + 100
    /\ write_size_left = (txn.sector_count * blkdev.sector_size) - 512

\* C24: write_size_left is never negative: after any sequence of WRITE and
\* WRITE_RDMA datagrams (payloads larger than what remains, or arriving
\* with nothing remaining, included) 0 <= write_size_left <= 65535 *
\* sector_size.
C24_WriteSizeLeftRange ==
    /\ 0 <= write_size_left
    /\ write_size_left <= 65535 * blkdev.sector_size

\* C25: the derived server state is consistent in every reachable state:
\* block_shift is 3, 5, 6 or 7 (5 at construction), block_size =
\* 1 << (block_shift + 2), blocks_per_packet = 1466 div block_size,
\* blocks_per_sector = sector_size div block_size; only READ changes these
\* fields; INFO changes no server or device state.
C25_DerivedState ==
    /\ [](/\ block_shift \in {3, 5, 6, 7}
          /\ block_size = Pow2(block_shift + 2)
          /\ blocks_per_packet = 1466 \div block_size
          /\ blocks_per_sector = blkdev.sector_size \div block_size
          /\ ev = "start" => (block_shift = 5 /\ block_size = 128))
    /\ [][Geo' # Geo => LastIs(UDPBD_CMD_READ)']_vars
    /\ [][(work' # work /\ LastIs(UDPBD_CMD_INFO)')
            => (/\ blkdev' = blkdev
                /\ write_size_left' = write_size_left
                /\ Geo' = Geo)]_vars

\* C25 witness: a READ of 14 sectors moved the server to shift 3 (45 blocks
\* of 32 bytes per packet), and an INFO was handled after it
C25_Witness ==
    /\ ev = "info"
    /\ block_shift = 3
    /\ block_size = 32
    /\ blocks_per_packet = 45
    /\ blocks_per_sector = blkdev.sector_size \div 32
====
